---- MODULE Spec2Model ----
(***************************************************************************)
(* Model of tui-split: the two-pane polled-command multiplexer of          *)
(* src/src/main.rs (Pane, App, main, run_app, ui) and the PTY session      *)
(* wrapper of src/src/lib.rs (Terminal, its write and read, and its Drop). *)
(*                                                                         *)
(* Text is a sequence of Unicode scalar values (10 is '\n', 13 is '\r',    *)
(* 97 is 'a', 65533 is U+FFFD); the bytes a command writes are a sequence  *)
(* of numbers 0..255.  Time is counted in whole seconds.                   *)
(*                                                                         *)
(* Specifications: Spec (main and the loop of run_app), SpecLive (the same *)
(* with fairness and fewer events), SpecPane and SpecLong (one Pane driven *)
(* call by call), SpecUi (the layout of ui on terminals of every size),    *)
(* SpecPty and SpecPtyIo (the Terminals of lib.rs).                        *)
(***************************************************************************)
EXTENDS Integers, Sequences, FiniteSets, TLC

VARIABLES
    \* ---- the multiplexer (main, run_app, App) ----
    pc,               \* position of main / run_app
    now,              \* the monotonic clock read by Instant::now()
    panes,            \* App.panes
    split_horizontal, \* App.split_horizontal
    focused_pane,     \* App.focused_pane
    raw_mode,         \* the terminal is in raw mode
    alt_screen,       \* the terminal shows the alternate screen
    res,              \* the value run_app returned: "none", "ok" or "err"
    exit_code,        \* the process exit code, -1 while running
    attempted,        \* the cleanup calls of main made so far
    raw_was_enabled,  \* enable_raw_mode has succeeded in this run
    error_reports,    \* for every error printed, the cleanup calls made before it
    keys_read,        \* number of events read so far
    tabs,             \* focus indices visited by the consecutive Tab presses
    upd,              \* the last call of pane.update() in this tick: pane, due, result
    event,            \* the event read at the end of the last tick, "none" if none
    replaced,         \* <<the Pane that event replaced>>, <<>> if it replaced none
    ran,              \* for every pane: its command was run since Pane::new
    \* ---- one Pane driven call by call ----
    pane,             \* the Pane
    op,               \* the last call made on it
    execs,            \* executions of its command since Pane::new (counted to 2)
    started,          \* clock when the last execution started
    finished,         \* clock when the last execution returned
    prev_finished,    \* clock when the execution before the last returned
    last_result,      \* what the last execution returned
    \* ---- the PTY sessions of lib.rs ----
    sess,             \* every Terminal created so far and its child process
    created,          \* number of Terminals created so far
    pty_result,       \* what the last call on a Terminal returned
    \* ---- the frame drawn by ui ----
    area,             \* f.area(): the area of the terminal
    direction,        \* the direction ui chose in the last draw
    chunks            \* the rectangles Layout::split returned in the last draw

loopObs  == <<upd, event, replaced, ran>>
appVars  == <<pc, panes, split_horizontal, focused_pane, raw_mode, alt_screen,
              res, exit_code, attempted, raw_was_enabled, error_reports,
              keys_read, tabs, loopObs>>
paneVars == <<pane, op, execs, started, finished, prev_finished, last_result>>
ptyVars  == <<sess, created, pty_result>>
uiVars   == <<area, direction, chunks>>
vars     == <<appVars, now, paneVars, ptyVars, uiVars>>

(***************************************************************************)
(* Bounds of the model.                                                    *)
(***************************************************************************)
MaxTime      == 3   \* the multiplexer's clock stops here
MaxKeys      == 3   \* events delivered to the multiplexer
MaxLiveKeys  == 1   \* events delivered in the runs that keep running
PaneMaxTime  == 4   \* the clock of the single-pane runs stops here
MaxStdoutLen == 2   \* bytes of stdout in the single-pane runs
MaxSessions  == 3   \* Terminals created in a run of the PTY sessions
MaxIoSessions == 1  \* Terminals created in a run of the PTY reads and writes
MaxWrites    == 2   \* calls of Terminal::write on one Terminal
MaxCols      == 80  \* columns of the terminal in the runs of ui
MaxRows      == 24  \* rows of the terminal in the runs of ui

(***************************************************************************)
(* Text helpers.                                                           *)
(***************************************************************************)
Max(a, b) == IF a >= b THEN a ELSE b

\* String::from_utf8_lossy on bytes outside 0xC2..0xF4 (no multi-byte lead):
\* an ASCII byte is its own character, any other byte is invalid on its own
\* and becomes U+FFFD.
FromUtf8Lossy(bytes) ==
    [i \in 1..Len(bytes) |-> IF bytes[i] < 128 THEN bytes[i] ELSE 65533] \o <<>>

\* str::lines().count(): one line per '\n', plus the unterminated last line.
IsLineFeed(c) == c = 10

LineCount(s) ==
    Len(SelectSeq(s, IsLineFeed))
        + (IF Len(s) > 0 /\ s[Len(s)] # 10 THEN 1 ELSE 0)

\* "\n--- STDERR ---\n"
StderrSeparator ==
    <<10, 45, 45, 45, 32, 83, 84, 68, 69, 82, 82, 32, 45, 45, 45, 10>>

\* "Error executing command: "
ErrorPrefix ==
    <<69, 114, 114, 111, 114, 32, 101, 120, 101, 99, 117, 116, 105, 110, 103,
      32, 99, 111, 109, 109, 97, 110, 100, 58, 32>>

\* Display of an io::Error: "No such file or directory (os error 2)"
ErrNotFound ==
    <<78, 111, 32, 115, 117, 99, 104, 32, 102, 105, 108, 101, 32, 111, 114,
      32, 100, 105, 114, 101, 99, 116, 111, 114, 121, 32, 40, 111, 115, 32,
      101, 114, 114, 111, 114, 32, 50, 41>>

\* n lines "a\n" as bytes
ALines(n) == [i \in 1..(2 * n) |-> IF i % 2 = 1 THEN 97 ELSE 10] \o <<>>

\* n empty lines as bytes
EmptyLines(n) == [i \in 1..n |-> 10] \o <<>>

\* every byte string of length at most n over the alphabet
BytesUpTo(alphabet, n) == UNION {[1..k -> alphabet] : k \in 0..n}

(***************************************************************************)
(* What Command::new("sh").arg("-c").arg(cmd).output() returns.            *)
(***************************************************************************)
Spawned(out, err) ==
    [spawned |-> TRUE, stdout |-> out, stderr |-> err, error |-> <<>>]

SpawnFailed(e) ==
    [spawned |-> FALSE, stdout |-> <<>>, stderr |-> <<>>, error |-> e]

NoResult == [spawned |-> FALSE, stdout |-> <<>>, stderr |-> <<>>, error |-> <<>>]

(***************************************************************************)
(* Pane.                                                                   *)
(***************************************************************************)
\* the seconds a command may take to return
CommandDurations == {0, 1}

RefreshSecs == 2
InitialAge  == 60

\* a Pane::new without the forced initial update
PaneNewFresh(title, command, t) ==
    [title |-> title, command |-> command, output |-> <<>>,
     last_update |-> t, scroll_offset |-> 0]

PaneNew(title, command, t) ==
    [title |-> title, command |-> command, output |-> <<>>,
     last_update |-> t - InitialAge, scroll_offset |-> 0]

\* an update that pushes the separator whether or not stderr is empty
CommandOutputAlwaysSeparator(r) ==
    IF r.spawned
    THEN FromUtf8Lossy(r.stdout) \o StderrSeparator \o FromUtf8Lossy(r.stderr)
    ELSE ErrorPrefix \o r.error

\* the match arms of Pane::update: the new value of self.output
CommandOutput(r) ==
    IF r.spawned
    THEN LET out == FromUtf8Lossy(r.stdout)
         IN  IF r.stderr # <<>>
             THEN out \o StderrSeparator \o FromUtf8Lossy(r.stderr)
             ELSE out
    ELSE ErrorPrefix \o r.error

\* a refresh that compares the age with the operands exchanged
UpdateDueReversed(p, t) == p.last_update - t > RefreshSecs

\* a refresh that is already due when exactly 2 seconds have elapsed
UpdateDueAtTwoSeconds(p, t) == t - p.last_update >= RefreshSecs

\* self.last_update.elapsed() > Duration::from_secs(2)
UpdateDue(p, t) == t - p.last_update > RefreshSecs

\* an update that sets last_update only in the Ok arm, so that a command
\* that could not be spawned is run again on the next tick
PaneUpdateRetriesFailure(p, t, r, d) ==
    IF UpdateDue(p, t)
    THEN IF r.spawned
         THEN [p EXCEPT !.output = CommandOutput(r), !.last_update = t + d]
         ELSE [p EXCEPT !.output = CommandOutput(r)]
    ELSE p

\* Pane::update called at time t; the command returns r after d seconds
PaneUpdate(p, t, r, d) ==
    IF UpdateDue(p, t)
    THEN [p EXCEPT !.output = CommandOutput(r), !.last_update = t + d]
    ELSE p

ScrollUp(p) ==
    IF p.scroll_offset > 0
    THEN [p EXCEPT !.scroll_offset = p.scroll_offset - 1]
    ELSE p

\* self.output.lines().count() as u16
LineCountU16(p) == LineCount(p.output) % 65536

\* line_count.saturating_sub(1)
ScrollLimit(p) == IF LineCountU16(p) = 0 THEN 0 ELSE LineCountU16(p) - 1

ScrollDown(p) ==
    IF p.scroll_offset < ScrollLimit(p)
    THEN [p EXCEPT !.scroll_offset = (p.scroll_offset + 1) % 65536]
    ELSE p

ResetScroll(p) == [p EXCEPT !.scroll_offset = 0]


(***************************************************************************)
(* ui: the layout of the frame.  A Rect is its top-left cell and its size. *)
(***************************************************************************)
Rect(x, y, w, h) == [x |-> x, y |-> y, width |-> w, height |-> h]

\* Rect::inner(Margin::new(m, m)): the empty Rect at the origin when the
\* area cannot hold the margin on both sides
Inner(r, m) ==
    IF r.width < 2 * m \/ r.height < 2 * m
    THEN Rect(0, 0, 0, 0)
    ELSE Rect(r.x + m, r.y + m, r.width - 2 * m, r.height - 2 * m)

\* [Constraint::Percentage(50), Constraint::Percentage(50)] over a length:
\* the boundary between the two segments lies at half the length and is
\* rounded half up, the segments are adjacent and fill the length
Shares(len) == <<(len + 1) \div 2, len \div 2>>

\* a layout whose direction test is inverted
SplitSwapped(a, horizontal) ==
    LET in == Inner(a, 1)
    IN  IF ~horizontal
        THEN LET w == Shares(in.width)
             IN  <<Rect(in.x, in.y, w[1], in.height),
                   Rect(in.x + w[1], in.y, w[2], in.height)>>
        ELSE LET h == Shares(in.height)
             IN  <<Rect(in.x, in.y, in.width, h[1]),
                   Rect(in.x, in.y + h[1], in.width, h[2])>>

\* Layout::default().direction(direction).margin(1)
\*     .constraints([Percentage(50), Percentage(50)]).split(a)
Split(a, horizontal) ==
    LET in == Inner(a, 1)
    IN  IF horizontal
        THEN LET w == Shares(in.width)
             IN  <<Rect(in.x, in.y, w[1], in.height),
                   Rect(in.x + w[1], in.y, w[2], in.height)>>
        ELSE LET h == Shares(in.height)
             IN  <<Rect(in.x, in.y, in.width, h[1]),
                   Rect(in.x, in.y + h[1], in.width, h[2])>>

\* ui(f, app): the direction and the chunks, from the terminal's area
Ui ==
    /\ direction' = IF split_horizontal THEN "Horizontal" ELSE "Vertical"
    /\ chunks' = Split(area, split_horizontal)
    /\ area' = area

\* the sizes of the terminal in the runs of ui
AllSizes == (0..MaxCols) \X (0..MaxRows)


(***************************************************************************)
(* One Pane driven call by call: Pane::new, update, scroll_up,             *)
(* scroll_down, reset_scroll, with the clock advancing between the calls.  *)
(***************************************************************************)
Min(a, b) == IF a <= b THEN a ELSE b

\* the (title, command) pairs of App::new and of the digit keys
Preset(k) ==
    CASE k = "0a" -> [title |-> "System Info",
                      command |-> "date && echo && uname -a && echo && uptime"]
      [] k = "0b" -> [title |-> "Process List", command |-> "ps aux | head -20"]
      [] k = "1"  -> [title |-> "Disk Usage", command |-> "df -h"]
      [] k = "2"  -> [title |-> "Network Info", command |-> "ifconfig"]
      [] k = "3"  -> [title |-> "Memory Info", command |-> "free -h"]
      [] k = "4"  -> [title |-> "CPU Info", command |-> "lscpu"]

NewPreset(k, t) == PaneNew(Preset(k).title, Preset(k).command, t)

\* results of the commands of the single-pane runs
StderrSet == {<<>>, <<101>>, <<255>>, <<101, 10>>}

PaneResults ==
    {Spawned(out, err) : out \in BytesUpTo({10, 97, 255}, MaxStdoutLen),
                         err \in StderrSet}
        \cup {SpawnFailed(ErrNotFound)}

\* long outputs: past 100 lines, and past the range of u16
LongResults ==
    {Spawned(EmptyLines(n), <<>>) : n \in {2, 101, 150, 65536, 65538}}

\* no pane.update() has been called in this tick
NoUpdate == [pane |-> -1, due |-> FALSE, result |-> NoResult]

InitApp ==
    /\ pc = "enable_raw_mode"
    /\ panes = <<>>
    /\ split_horizontal = FALSE
    /\ focused_pane = 0
    /\ raw_mode = FALSE
    /\ alt_screen = FALSE
    /\ res = "none"
    /\ exit_code = -1
    /\ attempted = {}
    /\ raw_was_enabled = FALSE
    /\ error_reports = {}
    /\ keys_read = 0
    /\ tabs = <<>>
    /\ upd = NoUpdate
    /\ event = "none"
    /\ replaced = <<>>
    /\ ran = <<>>

InitPane ==
    /\ pane = NewPreset("0a", 0)
    /\ op = "new"
    /\ execs = 0
    /\ started = 0
    /\ finished = 0
    /\ prev_finished = 0
    /\ last_result = NoResult

InitPty ==
    /\ sess = <<>>
    /\ created = 0
    /\ pty_result = "none"

\* a terminal of 80 columns and 24 rows on which nothing was drawn
InitUi ==
    /\ area = Rect(0, 0, 80, 24)
    /\ direction = "Vertical"
    /\ chunks = <<>>

Init == InitApp /\ now = 0 /\ InitPane /\ InitPty /\ InitUi

HNew ==
    /\ \E k \in {"0a", "1"} : pane' = NewPreset(k, now)
    /\ op' = "new"
    /\ execs' = 0
    /\ started' = 0
    /\ finished' = 0
    /\ prev_finished' = 0
    /\ last_result' = NoResult
    /\ UNCHANGED <<appVars, uiVars, now, ptyVars>>

HUpdate(results, maxT) ==
    /\ \/ /\ UpdateDue(pane, now)
          /\ \E r \in results, d \in CommandDurations :
                /\ now + d <= maxT
                /\ pane' = PaneUpdate(pane, now, r, d)
                /\ now' = now + d
                /\ last_result' = r
          /\ op' = "update"
          /\ execs' = Min(execs + 1, 2)
          /\ started' = now
          /\ finished' = now'
          /\ prev_finished' = finished
       \/ /\ ~UpdateDue(pane, now)
          /\ pane' = PaneUpdate(pane, now, NoResult, 0)
          /\ op' = "update_skipped"
          /\ UNCHANGED <<now, execs, started, finished, prev_finished,
                         last_result>>
    /\ UNCHANGED <<appVars, uiVars, ptyVars>>

HScrollUp ==
    /\ pane' = ScrollUp(pane)
    /\ op' = "scroll_up"
    /\ UNCHANGED <<appVars, uiVars, ptyVars, now, execs, started, finished, prev_finished,
                   last_result>>

HScrollDown ==
    /\ pane' = ScrollDown(pane)
    /\ op' = "scroll_down"
    /\ UNCHANGED <<appVars, uiVars, ptyVars, now, execs, started, finished, prev_finished,
                   last_result>>

HResetScroll ==
    /\ pane' = ResetScroll(pane)
    /\ op' = "reset_scroll"
    /\ UNCHANGED <<appVars, uiVars, ptyVars, now, execs, started, finished, prev_finished,
                   last_result>>

HTick(maxT) ==
    /\ now < maxT
    /\ now' = now + 1
    /\ op' = "tick"
    /\ UNCHANGED <<appVars, uiVars, ptyVars, pane, execs, started, finished, prev_finished,
                   last_result>>

NextPane ==
    \/ HNew
    \/ HUpdate(PaneResults, PaneMaxTime)
    \/ HScrollUp
    \/ HScrollDown
    \/ HResetScroll
    \/ HTick(PaneMaxTime)

SpecPane == Init /\ [][NextPane]_vars

\* the same calls with long outputs and the clock standing still: every
\* Pane::new is followed by at most one execution
NextLong ==
    \/ HNew
    \/ HUpdate(LongResults, 0)
    \/ HScrollUp
    \/ HScrollDown
    \/ HResetScroll

SpecLong == Init /\ [][NextLong]_vars


(***************************************************************************)
(* The multiplexer: main, App::new, and the loop of run_app.               *)
(***************************************************************************)
\* results of the commands run by the multiplexer's panes
AppResults ==
    {Spawned(ALines(1), <<>>), Spawned(<<>>, <<101>>), SpawnFailed(ErrNotFound)}

\* what event::read() can return
Keys   == {"q", "h", "v", "Tab", "Up", "Down", "1", "2", "3", "4", "x",
           "Enter"}
Events == Keys \cup {"resize"}

LoopPcs == {"update0", "update1", "draw", "poll", "read"}

\* a switch_focus without the modulo
SwitchFocusNoWrap(focused, len) == focused + 1

\* a switch_focus that wraps one pane too early
SwitchFocusShortCycle(focused, len) == (focused + 1) % (len - 1)

\* App::switch_focus: the new focused_pane
SwitchFocus(focused, len) == (focused + 1) % len

\* the focus indices of the consecutive Tab presses, the last Len(panes) + 1
Trail(t, f, len) ==
    LET all == Append(t, f)
    IN  IF Len(all) > len + 1 THEN Tail(all) ELSE all

\* main returns Err: the runtime prints the error and exits with code 1
MainFails(done) ==
    /\ pc' = "exited"
    /\ exit_code' = 1
    /\ error_reports' = error_reports \cup {[by |-> "runtime", after |-> done]}

\* run_app returns Err(e)
RunAppFails ==
    /\ res' = "err"
    /\ pc' = "disable_raw_mode"

EnableRawMode ==
    /\ pc = "enable_raw_mode"
    /\ \/ /\ raw_mode' = TRUE
          /\ raw_was_enabled' = TRUE
          /\ pc' = "enter_alt_screen"
          /\ UNCHANGED <<exit_code, error_reports>>
       \/ /\ MainFails(attempted)
          /\ UNCHANGED <<raw_mode, raw_was_enabled>>
    /\ UNCHANGED <<panes, split_horizontal, focused_pane, alt_screen, res,
                   attempted, keys_read, tabs, now, paneVars, ptyVars, uiVars,
                   loopObs>>

EnterAlternateScreen ==
    /\ pc = "enter_alt_screen"
    /\ \/ /\ alt_screen' = TRUE
          /\ pc' = "terminal_new"
          /\ UNCHANGED <<exit_code, error_reports>>
       \/ /\ MainFails(attempted)
          /\ UNCHANGED alt_screen
    /\ UNCHANGED <<panes, split_horizontal, focused_pane, raw_mode, res,
                   attempted, raw_was_enabled, keys_read, tabs, now, paneVars, ptyVars, uiVars,
                   loopObs>>

TerminalNew ==
    /\ pc = "terminal_new"
    /\ \/ /\ pc' = "app_new"
          /\ UNCHANGED <<exit_code, error_reports>>
       \/ MainFails(attempted)
    /\ UNCHANGED <<panes, split_horizontal, focused_pane, raw_mode, alt_screen,
                   res, attempted, raw_was_enabled, keys_read, tabs, now,
                   paneVars, ptyVars, uiVars,
                   loopObs>>

AppNew ==
    /\ pc = "app_new"
    /\ panes' = <<NewPreset("0a", now), NewPreset("0b", now)>>
    /\ split_horizontal' = FALSE
    /\ focused_pane' = 0
    /\ tabs' = <<0>>
    /\ ran' = <<FALSE, FALSE>>
    /\ pc' = "update0"
    /\ UNCHANGED <<raw_mode, alt_screen, res, exit_code, attempted,
                   raw_was_enabled, error_reports, keys_read, now, paneVars,
                   ptyVars, uiVars, upd, event, replaced>>

\* one iteration of the loop of App::update: pane.update()
UpdatePane ==
    /\ pc \in {"update0", "update1"}
    /\ LET i == IF pc = "update0" THEN 1 ELSE 2
       IN  \/ /\ UpdateDue(panes[i], now)
              /\ \E r \in AppResults, d \in CommandDurations :
                    /\ now + d <= MaxTime
                    /\ panes' = [panes EXCEPT
                                   ![i] = PaneUpdate(panes[i], now, r, d)]
                    /\ now' = now + d
                    /\ upd' = [pane |-> i - 1, due |-> TRUE, result |-> r]
              /\ ran' = [ran EXCEPT ![i] = TRUE]
           \/ /\ ~UpdateDue(panes[i], now)
              /\ panes' = [panes EXCEPT
                             ![i] = PaneUpdate(panes[i], now, NoResult, 0)]
              /\ now' = now
              /\ upd' = [pane |-> i - 1, due |-> FALSE, result |-> NoResult]
              /\ UNCHANGED ran
    /\ event' = "none"
    /\ replaced' = <<>>
    /\ pc' = IF pc = "update0" THEN "update1" ELSE "draw"
    /\ UNCHANGED <<split_horizontal, focused_pane, raw_mode, alt_screen, res,
                   exit_code, attempted, raw_was_enabled, error_reports,
                   keys_read, tabs, paneVars, ptyVars, uiVars>>

\* terminal.draw(|f| ui(f, app))?
Draw ==
    /\ pc = "draw"
    /\ \/ /\ Ui
          /\ pc' = "poll"
          /\ UNCHANGED res
       \/ /\ RunAppFails
          /\ UNCHANGED uiVars
    /\ UNCHANGED <<panes, split_horizontal, focused_pane, raw_mode, alt_screen,
                   exit_code, attempted, raw_was_enabled, error_reports,
                   keys_read, tabs, now, paneVars, ptyVars, loopObs>>

\* event::poll(Duration::from_millis(100))?, with at most n events in a run
PollUpTo(n) ==
    /\ pc = "poll"
    /\ \/ /\ pc' = "update0"
          /\ UNCHANGED res
       \/ /\ keys_read < n
          /\ pc' = "read"
          /\ UNCHANGED res
       \/ RunAppFails
    /\ UNCHANGED <<panes, split_horizontal, focused_pane, raw_mode, alt_screen,
                   exit_code, attempted, raw_was_enabled, error_reports,
                   keys_read, tabs, now, paneVars, ptyVars, uiVars,
                   loopObs>>

\* digit keys that replace the focused pane
KeyPanesReplaceFocused(key) ==
    CASE key = "Up"   -> [panes EXCEPT ![focused_pane + 1] = ScrollUp(@)]
      [] key = "Down" -> [panes EXCEPT ![focused_pane + 1] = ScrollDown(@)]
      [] key \in {"1", "2", "3", "4"} ->
            [panes EXCEPT ![focused_pane + 1] = NewPreset(key, now)]
      [] OTHER        -> panes

\* digit keys that change the title and the command of the pane in place
KeyPanesCommandOnly(key) ==
    CASE key = "Up"   -> [panes EXCEPT ![focused_pane + 1] = ScrollUp(@)]
      [] key = "Down" -> [panes EXCEPT ![focused_pane + 1] = ScrollDown(@)]
      [] key \in {"1", "3"} ->
            [panes EXCEPT ![1].title = Preset(key).title,
                          ![1].command = Preset(key).command,
                          ![1].last_update = now - InitialAge]
      [] key \in {"2", "4"} ->
            [panes EXCEPT ![2].title = Preset(key).title,
                          ![2].command = Preset(key).command,
                          ![2].last_update = now - InitialAge]
      [] OTHER        -> panes

Poll == PollUpTo(MaxKeys)

\* the arms of match key.code that change the App
KeyPanes(key) ==
    CASE key = "Up"   -> [panes EXCEPT ![focused_pane + 1] = ScrollUp(@)]
      [] key = "Down" -> [panes EXCEPT ![focused_pane + 1] = ScrollDown(@)]
      [] key = "1"    -> [panes EXCEPT ![1] = NewPreset("1", now)]
      [] key = "2"    -> [panes EXCEPT ![2] = NewPreset("2", now)]
      [] key = "3"    -> [panes EXCEPT ![1] = NewPreset("3", now)]
      [] key = "4"    -> [panes EXCEPT ![2] = NewPreset("4", now)]
      [] OTHER        -> panes

\* an h that toggles the orientation
KeySplitToggle(key) ==
    CASE key = "h" -> ~split_horizontal
      [] key = "v" -> FALSE
      [] OTHER     -> split_horizontal

KeySplit(key) ==
    CASE key = "h" -> TRUE
      [] key = "v" -> FALSE
      [] OTHER     -> split_horizontal

KeyFocus(key) ==
    IF key = "Tab" THEN SwitchFocus(focused_pane, Len(panes)) ELSE focused_pane

\* app.panes[app.focused_pane] panics when the index is out of bounds
KeyPanics(key) == key \in {"Up", "Down"} /\ focused_pane >= Len(panes)

\* the index into panes (from 1) of the pane a digit key replaces, 0 for
\* any other key
KeyTarget(key) ==
    CASE key \in {"1", "3"} -> 1
      [] key \in {"2", "4"} -> 2
      [] OTHER             -> 0

\* event::read()? and the match on the event, one of events
ReadEventOf(events) ==
    /\ pc = "read"
    /\ \/ /\ \E e \in events :
                /\ event' = e
                /\ IF e = "q"
                   THEN /\ res' = "ok"
                        /\ pc' = "disable_raw_mode"
                        /\ UNCHANGED <<panes, split_horizontal, focused_pane,
                                       tabs, exit_code, replaced, ran>>
                   ELSE IF KeyPanics(e)
                   THEN /\ pc' = "exited"
                        /\ exit_code' = 101
                        /\ UNCHANGED <<panes, split_horizontal, focused_pane,
                                       tabs, res, replaced, ran>>
                   ELSE /\ panes' = KeyPanes(e)
                        /\ split_horizontal' = KeySplit(e)
                        /\ focused_pane' = KeyFocus(e)
                        /\ tabs' = IF e = "Tab"
                                   THEN Trail(tabs, focused_pane', Len(panes))
                                   ELSE <<focused_pane>>
                        /\ replaced' = IF KeyTarget(e) # 0
                                       THEN <<panes[KeyTarget(e)]>> ELSE <<>>
                        /\ ran' = IF KeyTarget(e) # 0
                                  THEN [ran EXCEPT ![KeyTarget(e)] = FALSE]
                                  ELSE ran
                        /\ pc' = "update0"
                        /\ UNCHANGED <<res, exit_code>>
          /\ keys_read' = keys_read + 1
       \/ /\ RunAppFails
          /\ UNCHANGED <<panes, split_horizontal, focused_pane, tabs,
                         exit_code, keys_read, event, replaced, ran>>
    /\ upd' = NoUpdate
    /\ UNCHANGED <<raw_mode, alt_screen, attempted, raw_was_enabled,
                   error_reports, now, paneVars, ptyVars, uiVars>>

ReadEvent == ReadEventOf(Events)

DisableRawMode ==
    /\ pc = "disable_raw_mode"
    /\ attempted' = attempted \cup {"disable_raw_mode"}
    /\ \/ /\ raw_mode' = FALSE
          /\ pc' = "leave_alt_screen"
          /\ UNCHANGED <<exit_code, error_reports>>
       \/ /\ MainFails(attempted')
          /\ UNCHANGED raw_mode
    /\ UNCHANGED <<panes, split_horizontal, focused_pane, alt_screen, res,
                   raw_was_enabled, keys_read, tabs, now, paneVars, ptyVars, uiVars,
                   loopObs>>

LeaveAlternateScreen ==
    /\ pc = "leave_alt_screen"
    /\ attempted' = attempted \cup {"leave_alt_screen"}
    /\ \/ /\ alt_screen' = FALSE
          /\ pc' = "show_cursor"
          /\ UNCHANGED <<exit_code, error_reports>>
       \/ /\ MainFails(attempted')
          /\ UNCHANGED alt_screen
    /\ UNCHANGED <<panes, split_horizontal, focused_pane, raw_mode, res,
                   raw_was_enabled, keys_read, tabs, now, paneVars, ptyVars, uiVars,
                   loopObs>>

ShowCursor ==
    /\ pc = "show_cursor"
    /\ attempted' = attempted \cup {"show_cursor"}
    /\ \/ /\ pc' = "report"
          /\ UNCHANGED <<exit_code, error_reports>>
       \/ MainFails(attempted')
    /\ UNCHANGED <<panes, split_horizontal, focused_pane, raw_mode, alt_screen,
                   res, raw_was_enabled, keys_read, tabs, now, paneVars, ptyVars, uiVars,
                   loopObs>>

\* if let Err(err) = res { println!(...) }; Ok(())
Report ==
    /\ pc = "report"
    /\ error_reports' =
          IF res = "err"
          THEN error_reports \cup {[by |-> "main", after |-> attempted]}
          ELSE error_reports
    /\ pc' = "exited"
    /\ exit_code' = 0
    /\ UNCHANGED <<panes, split_horizontal, focused_pane, raw_mode, alt_screen,
                   res, attempted, raw_was_enabled, keys_read, tabs, now,
                   paneVars, ptyVars, uiVars,
                   loopObs>>

\* a second passes while the loop waits in event::poll (the time a command
\* takes passes in UpdatePane)
Tick ==
    /\ pc = "poll"
    /\ now < MaxTime
    /\ now' = now + 1
    /\ UNCHANGED <<appVars, uiVars, paneVars, ptyVars>>

Next ==
    \/ EnableRawMode
    \/ EnterAlternateScreen
    \/ TerminalNew
    \/ AppNew
    \/ UpdatePane
    \/ Draw
    \/ Poll
    \/ ReadEvent
    \/ DisableRawMode
    \/ LeaveAlternateScreen
    \/ ShowCursor
    \/ Report
    \/ Tick

Spec == Init /\ [][Next]_vars

\* the runs in which the process keeps running, with fewer events: every
\* call returns (the commands terminate, the poll returns after at most 100
\* ms), and time keeps passing while the loop waits in the poll, until the
\* clock of the model stops
LiveEvents == {"q", "Tab", "Down", "1", "4", "x", "resize"}

NextLive ==
    \/ EnableRawMode
    \/ EnterAlternateScreen
    \/ TerminalNew
    \/ AppNew
    \/ UpdatePane
    \/ Draw
    \/ PollUpTo(MaxLiveKeys)
    \/ ReadEventOf(LiveEvents)
    \/ DisableRawMode
    \/ LeaveAlternateScreen
    \/ ShowCursor
    \/ Report
    \/ Tick

SpecLive == Init /\ [][NextLive]_vars /\ WF_vars(NextLive) /\ SF_vars(Tick)


\* ui called on an App as App::new built it, on terminals of every size and
\* in both orientations
InitFrame ==
    /\ pc = "update0"
    /\ panes = <<NewPreset("0a", 0), NewPreset("0b", 0)>>
    /\ split_horizontal = FALSE
    /\ focused_pane = 0
    /\ raw_mode = TRUE
    /\ alt_screen = TRUE
    /\ res = "none"
    /\ exit_code = -1
    /\ attempted = {}
    /\ raw_was_enabled = TRUE
    /\ error_reports = {}
    /\ keys_read = 0
    /\ tabs = <<0>>
    /\ upd = NoUpdate
    /\ event = "none"
    /\ replaced = <<>>
    /\ ran = <<FALSE, FALSE>>
    /\ now = 0
    /\ InitPane /\ InitPty
    /\ \E size \in AllSizes : area = Rect(0, 0, size[1], size[2])
    /\ direction = "Vertical"
    /\ chunks = <<>>

UiDraw ==
    /\ Ui
    /\ UNCHANGED <<appVars, now, paneVars, ptyVars>>

\* the arms of the keys h and v
UiKey ==
    /\ \E key \in {"h", "v"} : split_horizontal' = KeySplit(key)
    /\ UNCHANGED <<pc, panes, focused_pane, raw_mode, alt_screen, res, exit_code,
                   attempted, raw_was_enabled, error_reports, keys_read, tabs,
                   loopObs, now, paneVars, ptyVars, uiVars>>

NextUi ==
    \/ UiDraw
    \/ UiKey

SpecUi == InitFrame /\ [][NextUi]_vars


(***************************************************************************)
(* lib.rs: Terminal (a PTY pair and the child process spawned on it) and   *)
(* its Drop.  A Terminal is a record; child is the state of its child      *)
(* process: "running", "exited" (it ended by itself) or "terminated" (it   *)
(* was killed); kills counts the calls of child.kill().                    *)
(***************************************************************************)
Geometries == {<<24, 80>>, <<10, 40>>}

\* Ok(Terminal { master, child }) of new_with_size
\* took_writer: MasterPty::take_writer was called; inq: bytes written to the
\* master that the child has not consumed; outq: bytes the child has written
\* that were not read; writes, refused: calls of write that returned Ok, and
\* calls that returned Err while the child was running
TerminalOpen(rows, cols) ==
    [state |-> "live", child |-> "running", rows |-> rows, cols |-> cols,
     kills |-> 0, kill_ok |-> FALSE, dropped_by |-> "none",
     took_writer |-> FALSE, inq |-> 0, outq |-> 0, writes |-> 0, refused |-> 0]

\* a drop that kills only on an explicit release
TerminalDropKillOnRelease(s, killed, how) ==
    IF how = "release"
    THEN [s EXCEPT !.state = "dropped",
                   !.dropped_by = how,
                   !.kills = s.kills + 1,
                   !.kill_ok = killed,
                   !.child = IF killed /\ s.child = "running"
                             THEN "terminated" ELSE s.child]
    ELSE [s EXCEPT !.state = "dropped", !.dropped_by = how]

\* Drop::drop: let _ = self.child.kill(); killed tells whether kill
\* returned Ok
TerminalDrop(s, killed, how) ==
    [s EXCEPT !.state = "dropped",
              !.dropped_by = how,
              !.kills = s.kills + 1,
              !.kill_ok = killed,
              !.child = IF killed /\ s.child = "running"
                        THEN "terminated" ELSE s.child]

Live == {id \in 1..Len(sess) : sess[id].state = "live"}

\* Terminal::new() and Terminal::new_with_size(rows, cols), at most n times
PtyNewUpTo(n) ==
    /\ created < n
    /\ \E g \in Geometries, outcome \in {"ok", "openpty_failed", "spawn_failed"} :
          /\ pty_result' = outcome
          /\ IF outcome = "ok"
             THEN /\ sess' = Append(sess, TerminalOpen(g[1], g[2]))
                  /\ created' = created + 1
             ELSE UNCHANGED <<sess, created>>
    /\ UNCHANGED <<appVars, uiVars, now, paneVars>>

PtyNew == PtyNewUpTo(MaxSessions)

\* Terminal::resize(rows, cols): master.resize(..)? may fail
PtyResize ==
    /\ \E id \in Live, g \in Geometries, ok \in BOOLEAN :
          sess' = IF ok
                  THEN [sess EXCEPT ![id].rows = g[1], ![id].cols = g[2]]
                  ELSE sess
    /\ UNCHANGED <<appVars, uiVars, now, paneVars, created, pty_result>>

\* the child process ends by itself
ChildExits ==
    /\ \E id \in 1..Len(sess) :
          /\ sess[id].child = "running"
          /\ sess' = [sess EXCEPT ![id].child = "exited"]
    /\ UNCHANGED <<appVars, uiVars, now, paneVars, created, pty_result>>

\* drop(terminal): the owner releases the Terminal
PtyRelease ==
    /\ \E id \in Live, killed \in BOOLEAN :
          sess' = [sess EXCEPT ![id] = TerminalDrop(sess[id], killed, "release")]
    /\ UNCHANGED <<appVars, uiVars, now, paneVars, created, pty_result>>

\* terminal = Terminal::new()?: the new Terminal is built, then the old
\* value is dropped
PtyReplace ==
    /\ created < MaxSessions
    /\ \E id \in Live, g \in Geometries, killed \in BOOLEAN :
          sess' = Append([sess EXCEPT
                            ![id] = TerminalDrop(sess[id], killed, "replace")],
                         TerminalOpen(g[1], g[2]))
    /\ created' = created + 1
    /\ pty_result' = "ok"
    /\ UNCHANGED <<appVars, uiVars, now, paneVars>>

\* a panic or an early return unwinds the owner: every live Terminal is
\* dropped
PtyUnwind ==
    /\ Live # {}
    /\ \E killed \in [Live -> BOOLEAN] :
          sess' = [id \in 1..Len(sess) |->
                     IF id \in Live
                     THEN TerminalDrop(sess[id], killed[id], "unwind")
                     ELSE sess[id]]
    /\ UNCHANGED <<appVars, uiVars, now, paneVars, created, pty_result>>

\* "echo hello\n" and "x"
EchoHello == <<101, 99, 104, 111, 32, 104, 101, 108, 108, 111, 10>>
WriteData == {EchoHello, <<120>>}

\* the lengths of the buffers passed to read
ReadLens == {1, 1024}

\* Terminal::write(data): take_writer()? gives the writer of the master once
\* and fails on every later call; writer.write(data)? may fail once the
\* child has ended; the writer is dropped when write returns, which sends
\* "\n" and the EOF character to the child if the terminal has one set
WriteOutcome(s, data, io_ok, eof) ==
    IF s.took_writer
    THEN [s EXCEPT !.refused = IF s.child = "running" THEN @ + 1 ELSE @]
    ELSE IF io_ok \/ s.child = "running"
    THEN [s EXCEPT !.took_writer = TRUE,
                   !.writes = @ + 1,
                   !.inq = @ + Len(data) + (IF eof THEN 2 ELSE 0)]
    ELSE [s EXCEPT !.took_writer = TRUE,
                   !.inq = @ + (IF eof THEN 2 ELSE 0)]

PtyWrite ==
    /\ \E id \in Live, data \in WriteData, io_ok \in BOOLEAN, eof \in BOOLEAN :
          /\ sess[id].writes + sess[id].refused < MaxWrites
          /\ sess' = [sess EXCEPT ![id] = WriteOutcome(sess[id], data, io_ok, eof)]
          /\ pty_result' = IF sess'[id].writes > sess[id].writes
                           THEN "written" ELSE "write_failed"
    /\ UNCHANGED <<appVars, uiVars, now, paneVars, created>>

\* the child consumes its input and answers: the bytes become readable on
\* the master
ChildOutputs ==
    /\ \E id \in 1..Len(sess) :
          /\ sess[id].child = "running"
          /\ sess[id].inq > 0
          /\ sess' = [sess EXCEPT ![id].outq = @ + sess[id].inq, ![id].inq = 0]
    /\ UNCHANGED <<appVars, uiVars, now, paneVars, created, pty_result>>

\* Terminal::read(buf): try_clone_reader()? and reader.read(buf)?; the read
\* blocks while nothing is readable and the child runs, and returns 0 or an
\* error once the child has ended and its output is drained
PtyRead ==
    /\ \E id \in Live, len \in ReadLens :
          IF sess[id].outq > 0
          THEN /\ sess' = [sess EXCEPT ![id].outq = @ - Min(len, @)]
               /\ pty_result' = "read_some"
          ELSE /\ sess[id].child # "running"
               /\ sess' = sess
               /\ pty_result' \in {"read_zero", "read_failed"}
    /\ UNCHANGED <<appVars, uiVars, now, paneVars, created>>

NextPty ==
    \/ PtyNew
    \/ PtyResize
    \/ ChildExits
    \/ PtyRelease
    \/ PtyReplace
    \/ PtyUnwind

SpecPty == Init /\ [][NextPty]_vars

\* writes and reads on the Terminals, with the child answering
NextPtyIo ==
    \/ PtyNewUpTo(MaxIoSessions)
    \/ PtyWrite
    \/ ChildOutputs
    \/ PtyRead
    \/ PtyResize
    \/ ChildExits
    \/ PtyRelease

SpecPtyIo == Init /\ [][NextPtyIo]_vars


(***************************************************************************)
(* Properties.                                                             *)
(***************************************************************************)
\* the largest offset the data model allows for a pane
MaxOffset(p) == Max(0, LineCount(p.output) - 1)

\* String::as_bytes for text of ASCII characters and U+FFFD
RECURSIVE AsBytes(_)
AsBytes(s) ==
    IF s = <<>> THEN <<>>
    ELSE (IF Head(s) < 128 THEN <<Head(s)>> ELSE <<239, 191, 189>>)
             \o AsBytes(Tail(s))

IsAscii(bytes) == \A i \in 1..Len(bytes) : bytes[i] < 128

\* C1: in every reachable state of the multiplexer every pane's scroll
\* offset is at most max(0, lineCount - 1) of its current output.
\* Pane::update replaces the output and leaves the offset as it was.
C1_ScrollWithinOutput ==
    \A i \in 1..Len(panes) : panes[i].scroll_offset <= MaxOffset(panes[i])

\* C2: with the output held fixed, a scroll_up or scroll_down keeps an
\* offset that is within [0, max(0, lineCount - 1)] within it, and moves it
\* by exactly one unless it is at the bound it moves towards.
C2_ScrollStepsClamped ==
    [][(/\ op' \in {"scroll_up", "scroll_down"}
        /\ pane.scroll_offset <= MaxOffset(pane))
       => /\ pane'.output = pane.output
          /\ pane'.scroll_offset >= 0
          /\ pane'.scroll_offset <= MaxOffset(pane)
          /\ op' = "scroll_up" =>
                IF pane.scroll_offset = 0
                THEN pane'.scroll_offset = 0
                ELSE pane'.scroll_offset = pane.scroll_offset - 1
          /\ op' = "scroll_down" =>
                IF pane.scroll_offset = MaxOffset(pane)
                THEN pane'.scroll_offset = pane.scroll_offset
                ELSE pane'.scroll_offset = pane.scroll_offset + 1]_vars

\* C3: update runs the command only when more than 2 seconds have passed
\* since last_update, last_update is the time the execution returned, so
\* more than 2 seconds lie between the end of one execution and the start
\* of the next of the same Pane, and an update that is not due leaves the
\* pane as it was.
C3_RefreshWindow ==
    /\ [](execs = 2 => started - prev_finished > 2)
    /\ [](execs > 0 => pane.last_update = finished)
    /\ [][op' = "update" => now - pane.last_update > 2]_vars
    /\ [][op' = "update_skipped" =>
             /\ now - pane.last_update <= 2
             /\ pane' = pane]_vars

\* C3 witness: a second update exactly 2 seconds after the first execution
\* returned did not execute the command again.
C3_Witness ==
    /\ op = "update_skipped"
    /\ execs = 1
    /\ now - finished = 2

\* C4: once the App exists, focused_pane is a valid index into panes, and
\* the indexing by Up and Down never panics (exit code 101).
C4_FocusValid ==
    /\ panes # <<>> => focused_pane \in 0..(Len(panes) - 1)
    /\ exit_code # 101

\* C4 witness: after Tab, Down scrolled the pane at index 1.
C4_Witness ==
    /\ panes # <<>>
    /\ focused_pane = 1
    /\ panes[2].scroll_offset = 1

\* C5: every switch_focus moves the focus to (f + 1) mod P, and P
\* consecutive switches come back to where they started after visiting
\* every pane once.
C5_FocusCyclic ==
    panes # <<>> =>
        LET P == Len(panes)
        IN  /\ tabs[Len(tabs)] = focused_pane
            /\ \A k \in 2..Len(tabs) : tabs[k] = (tabs[k - 1] + 1) % P
            /\ Len(tabs) = P + 1 =>
                  /\ tabs[P + 1] = tabs[1]
                  /\ {tabs[k] : k \in 1..P} = 0..(P - 1)

\* C5 witness: P consecutive Tab presses that started at the pane of index 1.
C5_Witness ==
    /\ panes # <<>>
    /\ Len(tabs) = Len(panes) + 1
    /\ tabs[1] = 1

\* C6: a pane's output never holds more than 100 lines.
C6_AtMostHundredLines == LineCount(pane.output) <= 100

\* C7: when main has ended after raw mode was enabled, disable_raw_mode and
\* the leave-alternate-screen step have both been attempted.
C7_RestoreOnEveryExit ==
    (pc = "exited" /\ raw_was_enabled) =>
        {"disable_raw_mode", "leave_alt_screen"} \subseteq attempted

\* C8: after the quit key the loop is left for good, the terminal mode is
\* restored and the exit code is 0; the exit code is non-zero only when the
\* setup failed (run_app never returned); an error is printed only after
\* the restoration steps have run.
C8_QuitAndExitCodes ==
    /\ res = "ok" => pc \notin LoopPcs
    /\ (pc = "exited" /\ res = "ok") =>
          exit_code = 0 /\ ~raw_mode /\ ~alt_screen
    /\ (pc = "exited" /\ exit_code # 0) => res = "none"
    /\ raw_was_enabled =>
          \A r \in error_reports :
              {"disable_raw_mode", "leave_alt_screen"} \subseteq r.after

\* C9 as claimed: no dropped Terminal leaves its child running.
C9_NoChildLeftRunning ==
    \A id \in 1..Len(sess) :
        sess[id].state = "dropped" => sess[id].child # "running"

\* C9 as amended: every drop, whatever triggered it and whether or not the
\* child had already ended, calls kill exactly once and completes whether
\* kill succeeds or fails; a dropped Terminal whose kill succeeded does not
\* leave its child running; a child that has exited or was terminated never
\* runs again.
C9_DropKillsBestEffort ==
    /\ [](\A id \in 1..Len(sess) :
            /\ sess[id].state = "dropped" <=> sess[id].kills = 1
            /\ sess[id].state = "live" <=> sess[id].kills = 0
            /\ (sess[id].state = "dropped" /\ sess[id].kill_ok) =>
                  sess[id].child # "running")
    /\ [][\A id \in 1..Len(sess) :
            /\ sess[id].state = "live" /\ sess'[id].state = "dropped" =>
                  sess'[id].kills = sess[id].kills + 1
            /\ sess[id].child # "running" =>
                  sess'[id].child = sess[id].child]_vars

\* C9 witness: a Terminal dropped by unwinding whose kill failed: the drop
\* completed, and the child still runs.
C9_Witness ==
    \E id \in 1..Len(sess) :
        /\ sess[id].state = "dropped"
        /\ sess[id].dropped_by = "unwind"
        /\ sess[id].kills = 1
        /\ ~sess[id].kill_ok
        /\ sess[id].child = "running"

\* C10 as claimed: after an executed update whose command was spawned the
\* buffer is, byte for byte, stdout, followed if and only if stderr is
\* non-empty by "\n--- STDERR ---\n" and stderr.
C10_BufferIsStdoutBytes ==
    (op = "update" /\ last_result.spawned) =>
        AsBytes(pane.output) =
            last_result.stdout \o
                (IF last_result.stderr # <<>>
                 THEN StderrSeparator \o last_result.stderr ELSE <<>>)

\* C10 as amended: the buffer is stdout decoded as UTF-8 with every invalid
\* byte replaced by U+FFFD (stdout itself when it is ASCII), nothing of the
\* previous buffer is kept, and it is followed, if and only if stderr is
\* non-empty, by the separator line and the decoded stderr.
C10_BufferIsDecodedStdout ==
    (op = "update" /\ last_result.spawned) =>
        LET out  == last_result.stdout
            err  == last_result.stderr
            text == [i \in 1..Len(out) |-> IF out[i] < 128 THEN out[i] ELSE 65533]
            rest == SubSeq(pane.output, Len(out) + 1, Len(pane.output))
        IN  /\ Len(pane.output) >= Len(out)
            /\ \A i \in 1..Len(out) : pane.output[i] = text[i]
            /\ IsAscii(out) => SubSeq(pane.output, 1, Len(out)) = out
            /\ err = <<>> => rest = <<>>
            /\ err # <<>> =>
                  /\ SubSeq(rest, 1, Len(StderrSeparator)) = StderrSeparator
                  /\ Len(rest) = Len(StderrSeparator) + Len(err)
                  /\ \A i \in 1..Len(err) :
                        rest[Len(StderrSeparator) + i] =
                            (IF err[i] < 128 THEN err[i] ELSE 65533)

\* C10 witness: a second execution, on a buffer that held an earlier
\* output, returned a non-empty stdout with an invalid byte and a non-empty
\* stderr.
C10_Witness ==
    /\ op = "update"
    /\ execs = 2
    /\ last_result.spawned
    /\ last_result.stdout = <<97, 255>>
    /\ last_result.stderr = <<101, 10>>

\* the multiplexer is in Running: inside the loop of run_app
Running == pc \in LoopPcs /\ res = "none" /\ exit_code = -1

\* C11: a due update whose command cannot be spawned puts the error message
\* with the failure description into that pane's buffer and sets last_update
\* to the current time, so the next update of the pane is not due; it leaves
\* the pane's other fields, the other pane, the focus and the orientation
\* as they were, and run_app goes on to the next pane or to the redraw, and
\* from there to the event poll unless the draw itself fails.
C11_SpawnFailureAbsorbed ==
    /\ [][(pc \in {"update0", "update1"} /\ upd'.due /\ ~upd'.result.spawned) =>
            LET i == upd'.pane + 1
                j == 3 - i
            IN  /\ i = (IF pc = "update0" THEN 1 ELSE 2)
                /\ panes'[i].output = ErrorPrefix \o upd'.result.error
                /\ upd'.result.error # <<>>
                /\ panes'[i].last_update = now'
                /\ ~(now' - panes'[i].last_update > 2)
                /\ panes'[i].title = panes[i].title
                /\ panes'[i].command = panes[i].command
                /\ panes'[i].scroll_offset = panes[i].scroll_offset
                /\ panes'[j] = panes[j]
                /\ focused_pane' = focused_pane
                /\ split_horizontal' = split_horizontal
                /\ Running'
                /\ pc' = (IF pc = "update0" THEN "update1" ELSE "draw")]_vars
    /\ [][(pc = "draw" /\ upd.due /\ ~upd.result.spawned) =>
            (pc' = "poll" /\ Running') \/ (res' = "err" /\ panes' = panes)]_vars

\* C11 witness: the loop has drawn and is polling for events after the
\* command of pane 0 could not be spawned in this tick, while pane 1 holds
\* the output of its command.
C11_Witness ==
    /\ pc = "poll"
    /\ Running
    /\ panes[1].output = ErrorPrefix \o ErrNotFound
    /\ panes[1].last_update = now
    /\ panes[2].output = ALines(1)
    /\ upd.pane = 1 /\ upd.due

Digits == {"1", "2", "3", "4"}

\* C12: the match arm of a digit key stores a new Pane in the slot of the
\* digit: its command is the preset of the digit, its scroll offset is 0 and
\* its buffer is empty, whatever the offset and the buffer of the pane it
\* replaces were; the new pane is refreshed before the next draw.
C12_DigitResetsPane ==
    [][(pc = "read" /\ event' \in Digits) =>
          LET i == IF event' \in {"1", "3"} THEN 1 ELSE 2
          IN  /\ replaced' = <<panes[i]>>
              /\ panes'[i].command = Preset(event').command
              /\ panes'[i].title = Preset(event').title
              /\ panes'[i].scroll_offset = 0
              /\ panes'[i].output = <<>>
              /\ now' - panes'[i].last_update > 2]_vars

\* C12 witness: key 1 replaced a pane that was scrolled to offset 1 over a
\* non-empty buffer.
C12_Witness ==
    /\ event = "1"
    /\ replaced # <<>>
    /\ replaced[1].scroll_offset = 1
    /\ replaced[1].output # <<>>
    /\ panes[1].scroll_offset = 0
    /\ panes[1].output = <<>>

\* C13: when a printable character or Enter that is bound to no command is
\* read, its bytes are written to a live session (of the focused pane).
\* run_app matches such a key with the arm _ => {} and main creates no
\* Terminal, so no session receives anything.
C13_UnboundKeyForwarded ==
    [][(pc = "read" /\ event' \in {"x", "Enter"}) =>
          \E id \in 1..Len(sess') :
              /\ sess'[id].state = "live"
              /\ sess'[id].writes > (IF id <= Len(sess)
                                     THEN sess[id].writes ELSE 0)]_vars

\* C14: no call of write on a live Terminal whose child is running returns
\* an error.  Every call of Terminal::write takes the writer of the master,
\* which is handed out once: the second call on the same Terminal fails.
C14_WritesSucceed ==
    \A id \in 1..Len(sess) : sess[id].refused = 0

\* a Rect without cells, two Rects sharing a cell, a Rect whose cells all
\* lie in another, and an area without its outermost ring of cells
Empty(r) == r.width = 0 \/ r.height = 0

Overlap(a, b) ==
    /\ ~Empty(a) /\ ~Empty(b)
    /\ a.x < b.x + b.width /\ b.x < a.x + a.width
    /\ a.y < b.y + b.height /\ b.y < a.y + a.height

Inside(r, o) ==
    \/ Empty(r)
    \/ /\ r.x >= o.x /\ r.x + r.width <= o.x + o.width
       /\ r.y >= o.y /\ r.y + r.height <= o.y + o.height

Inset(a) == Rect(a.x + 1, a.y + 1, Max(0, a.width - 2), Max(0, a.height - 2))

\* what C15 and its amended form share: one rectangle per pane, apart from
\* each other and inside the inset area, stacked in rows for Vertical and
\* side by side in columns for Horizontal
LayoutShape ==
    /\ Len(panes) = 2
    /\ Len(chunks) = Len(panes)
    /\ ~Overlap(chunks[1], chunks[2])
    /\ \A i \in 1..2 : Inside(chunks[i], Inset(area))
    /\ direction = "Vertical" =>
          /\ chunks[1].x = chunks[2].x /\ chunks[1].width = chunks[2].width
          /\ chunks[2].y >= chunks[1].y + chunks[1].height
    /\ direction = "Horizontal" =>
          /\ chunks[1].y = chunks[2].y /\ chunks[1].height = chunks[2].height
          /\ chunks[2].x >= chunks[1].x + chunks[1].width

\* C15 as claimed: the shape above, equal shares of the two panes, on 80x24
\* two rectangles of about 80x11 with one row between them for Vertical and
\* two of 39x22 for Horizontal, and zero-size rectangles on a zero-size
\* area.
C15_LayoutAsClaimed ==
    chunks # <<>> =>
        /\ LayoutShape
        /\ direction = "Vertical" => chunks[1].height = chunks[2].height
        /\ direction = "Horizontal" => chunks[1].width = chunks[2].width
        /\ (area = Rect(0, 0, 80, 24) /\ direction = "Vertical") =>
              /\ \A i \in 1..2 : /\ chunks[i].height = 11
                                  /\ chunks[i].width \in 78..80
              /\ chunks[2].y = chunks[1].y + chunks[1].height + 1
        /\ (area = Rect(0, 0, 80, 24) /\ direction = "Horizontal") =>
              \A i \in 1..2 : chunks[i].width = 39 /\ chunks[i].height = 22
        /\ Empty(area) => \A i \in 1..2 : Empty(chunks[i])

\* C15 as amended: the shape above; the two rectangles are adjacent and
\* fill the inset area, the first takes the half of its length rounded up
\* and the second the half rounded down, so the shares are equal when the
\* inset length is even and differ by one cell when it is odd; on 80x24
\* Vertical gives two rectangles of 78x11 at rows 1 and 12 with no row
\* between them and Horizontal two of 39x22 at columns 1 and 40; an area of
\* fewer than 2 columns or rows, a zero-size area included, gives two
\* zero-size rectangles.
C15_Layout ==
    chunks # <<>> =>
        LET in == Inset(area)
        IN  /\ LayoutShape
            /\ (area.width >= 2 /\ area.height >= 2 /\ direction = "Vertical") =>
                  /\ chunks[1].x = in.x /\ chunks[1].width = in.width
                  /\ chunks[1].y = in.y
                  /\ chunks[2].y = chunks[1].y + chunks[1].height
                  /\ chunks[1].height + chunks[2].height = in.height
                  /\ chunks[1].height - chunks[2].height = in.height % 2
            /\ (area.width >= 2 /\ area.height >= 2 /\ direction = "Horizontal") =>
                  /\ chunks[1].y = in.y /\ chunks[1].height = in.height
                  /\ chunks[1].x = in.x
                  /\ chunks[2].x = chunks[1].x + chunks[1].width
                  /\ chunks[1].width + chunks[2].width = in.width
                  /\ chunks[1].width - chunks[2].width = in.width % 2
            /\ (area = Rect(0, 0, 80, 24) /\ direction = "Vertical") =>
                  chunks = <<Rect(1, 1, 78, 11), Rect(1, 12, 78, 11)>>
            /\ (area = Rect(0, 0, 80, 24) /\ direction = "Horizontal") =>
                  chunks = <<Rect(1, 1, 39, 22), Rect(40, 1, 39, 22)>>
            /\ (area.width < 2 \/ area.height < 2) =>
                  \A i \in 1..2 : chunks[i].width = 0 /\ chunks[i].height = 0

\* C15 witness: the frame of an 80x24 terminal drawn with the vertical
\* split while the App is already set to the horizontal split.
C15_Witness ==
    /\ area = Rect(0, 0, 80, 24)
    /\ direction = "Vertical"
    /\ split_horizontal
    /\ chunks = <<Rect(1, 1, 78, 11), Rect(1, 12, 78, 11)>>

\* C16: a digit key stores the new pane at index 0 for 1 and 3 and at index
\* 1 for 2 and 4, wherever the focus is, and leaves the other pane, the
\* focus, the orientation and the number of panes as they were; the App has
\* 2 panes in every state, as many as the layout has chunks, so chunks[i],
\* panes[0] and panes[1] never index out of bounds.
C16_DigitReplacesOnePane ==
    /\ [](panes # <<>> =>
            /\ Len(panes) = 2
            /\ Len(Split(area, split_horizontal)) = Len(panes)
            /\ chunks # <<>> => Len(chunks) = Len(panes)
            /\ exit_code # 101)
    /\ [][(pc = "read" /\ event' \in Digits) =>
            LET i == IF event' \in {"1", "3"} THEN 1 ELSE 2
                j == 3 - i
            IN  /\ panes'[i] = PaneNew(Preset(event').title,
                                       Preset(event').command, now)
                /\ panes'[j] = panes[j]
                /\ Len(panes') = Len(panes)
                /\ focused_pane' = focused_pane
                /\ split_horizontal' = split_horizontal
                /\ Running']_vars

\* C16 witness: key 3 replaced pane 0 while pane 1 was focused, scrolled
\* and filled.
C16_Witness ==
    /\ event = "3"
    /\ focused_pane = 1
    /\ panes[1].command = "free -h"
    /\ panes[2].command = "ps aux | head -20"
    /\ panes[2].scroll_offset = 1
    /\ panes[2].output # <<>>

\* C17: Up and Down change nothing but the scroll offset of the pane that
\* has the focus when the key is read, Tab nothing but the focus index, h
\* and v nothing but the orientation (h sets it to horizontal and v to
\* vertical, whatever it was), and an unbound key or another event nothing.
C17_KeyFrames ==
    [][(pc = "read" /\ event' \notin Digits \cup {"none", "q"}) =>
          LET f == focused_pane + 1
              g == 3 - f
          IN  /\ event' \in {"Up", "Down"} =>
                    /\ panes'[g] = panes[g]
                    /\ panes'[f] = [panes[f] EXCEPT
                                       !.scroll_offset = panes'[f].scroll_offset]
                    /\ panes'[f].scroll_offset - panes[f].scroll_offset
                          \in (IF event' = "Up" THEN {-1, 0} ELSE {0, 1})
              /\ event' \notin {"Up", "Down"} => panes' = panes
              /\ event' = "Tab" => focused_pane' = (focused_pane + 1) % 2
              /\ event' # "Tab" => focused_pane' = focused_pane
              /\ event' = "h" => split_horizontal'
              /\ event' = "v" => ~split_horizontal'
              /\ event' \notin {"h", "v"} => split_horizontal' = split_horizontal
              /\ Running']_vars

\* C17 witness: h was read while the split was already horizontal, with
\* pane 1 focused.
C17_Witness ==
    /\ event = "h"
    /\ split_horizontal
    /\ direction = "Horizontal"
    /\ focused_pane = 1

\* C18: a tick calls update on pane 0, then on pane 1, then draws, then
\* polls and reads at most one event, and only then begins the next tick; a
\* pane made by App::new or by a digit key is due at once, so update runs
\* its command (Command::output is called, C11 covers its failure) before
\* the next draw: whenever ui is called, the command of every pane has been
\* run since that pane was created.
C18_UpdateBeforeDraw ==
    /\ [](pc = "draw" => \A i \in 1..Len(panes) : ran[i])
    /\ [](panes # <<>> =>
            \A i \in 1..Len(panes) :
                ~ran[i] => /\ now - panes[i].last_update > 2
                           /\ panes[i].output = <<>>
                           /\ pc \in {"update0", "update1"}
                           /\ pc = "update1" => i = 2)
    /\ [][/\ pc = "update0" => pc' \in {"update0", "update1"}
          /\ pc = "update1" => pc' \in {"update1", "draw"}
          /\ pc = "draw" => pc' \in {"draw", "poll", "disable_raw_mode"}
          /\ pc = "poll" => pc' \in {"poll", "read", "update0", "disable_raw_mode"}
          /\ pc = "read" => pc' \in {"update0", "disable_raw_mode", "exited"}
          /\ keys_read' # keys_read =>
                pc = "read" /\ keys_read' = keys_read + 1
          /\ chunks' # chunks => pc = "draw"]_vars

\* C18 witness: ui is about to be called in the tick after key 1 replaced
\* pane 0, and the command of the new pane has been run.
C18_Witness ==
    /\ pc = "draw"
    /\ keys_read = 1
    /\ panes[1].command = "df -h"
    /\ panes[1].output = ALines(1)
    /\ ran = <<TRUE, TRUE>>
    /\ chunks # <<>>

\* C19: while the multiplexer stays in Running, a pane that is due (more
\* than 2 seconds after its last_update) has its command run, and as time
\* passes up to the end of the clock every pane is again and again within 2
\* seconds of its last run, whether or not events arrive.
C19_RefreshLive ==
    /\ \A i \in 1..2 :
          (Running /\ now - panes[i].last_update > 2)
              ~> (~Running \/ (upd.due /\ upd.pane = i - 1))
    /\ <>(~Running \/ now = MaxTime)
    /\ []<>(~Running \/ \A i \in 1..2 : now - panes[i].last_update <= 2)

\* C19 witness: without any event read, both panes were run again at the
\* end of the clock, more than 2 seconds after their first run.
C19_Witness ==
    /\ Running
    /\ keys_read = 0
    /\ now = MaxTime
    /\ upd.due
    /\ \A i \in 1..2 : panes[i].last_update = MaxTime

\* C20: every scroll_down does what a bound taken from the full line count
\* would make it do: from an offset below min(n - 1, 65535) it adds 1, from
\* any other offset it changes nothing, and the offset it adds 1 to is
\* below 65535.  With n = 65536 lines the narrowed count is 0 and the
\* offset stays at 0.
C20_NarrowingHarmless ==
    [][op' = "scroll_down" =>
          LET n     == LineCount(pane.output)
              bound == Min(Max(0, n - 1), 65535)
          IN  /\ pane'.scroll_offset =
                    (IF pane.scroll_offset < bound
                     THEN pane.scroll_offset + 1 ELSE pane.scroll_offset)
              /\ pane'.scroll_offset # pane.scroll_offset =>
                    pane.scroll_offset < 65535]_vars

====
